---- MODULE Spec2Model ----
(***************************************************************************)
(* Smart resume parser: the record store (app.py), the upload, search and  *)
(* clear request handlers, the matcher / ranker                            *)
(* (recommendation_system.py), and the education and experience extractors *)
(* (resume_parser.py).                                                     *)
(*                                                                         *)
(* Strings are sequences of one-character strings, so that lower(),        *)
(* strip(), the substring test and difflib's SequenceMatcher are computed  *)
(* character by character.  Floats are exact rationals: experience values  *)
(* are whole years, scores are records [num, den] with den > 0, and the    *)
(* float NaN that float() accepts is the record field nan.                 *)
(***************************************************************************)
EXTENDS Integers, Sequences, FiniteSets, TLC

(* ------------------------------ bounds -------------------------------- *)
\* uuid4 values the process may draw (records ever inserted)
MaxIds == 2
\* documents in one upload request
MaxFiles == 2
\* comma-separated items in the required_skills form field
MaxItems == 2

(* ------------------------------ strings ------------------------------- *)
\* str.lower() on one character (the upper-case letters the model uses)
UpperToLower ==
    [A |-> "a", B |-> "b", C |-> "c", D |-> "d", F |-> "f", P |-> "p"]

LowerChar(c) == IF c \in DOMAIN UpperToLower THEN UpperToLower[c] ELSE c

\* str.lower()
Lower(s) == [i \in 1..Len(s) |-> LowerChar(s[i])]

\* str.strip(): drop leading and trailing whitespace
IsSpace(c) == c \in {" ", "\n"}

RECURSIVE LStrip(_)
LStrip(s) == IF s # <<>> /\ IsSpace(Head(s)) THEN LStrip(Tail(s)) ELSE s

RECURSIVE RStrip(_)
RStrip(s) ==
    IF s # <<>> /\ IsSpace(s[Len(s)]) THEN RStrip(SubSeq(s, 1, Len(s) - 1)) ELSE s

Strip(s) == RStrip(LStrip(s))

\* str.split(sep) for a one-character separator
RECURSIVE Split(_, _)
Split(s, sep) ==
    IF \E i \in 1..Len(s) : s[i] = sep
    THEN LET p == CHOOSE i \in 1..Len(s) : s[i] = sep /\ \A h \in 1..(i - 1) : s[h] # sep
         IN  <<SubSeq(s, 1, p - 1)>> \o Split(SubSeq(s, p + 1, Len(s)), sep)
    ELSE <<s>>

\* sep.join(items)
RECURSIVE Join(_, _)
Join(items, sep) ==
    IF items = <<>> THEN <<>>
    ELSE IF Len(items) = 1 THEN items[1]
    ELSE items[1] \o <<sep>> \o Join(Tail(items), sep)

\* the Python test  sub in s  on strings
IsSubstring(sub, s) ==
    \E i \in 0..(Len(s) - Len(sub)) : SubSeq(s, i + 1, i + Len(sub)) = sub

(* --------------------- difflib.SequenceMatcher ------------------------ *)
\* length of the common run of a[i..ahi-1] and b[j..bhi-1] starting at i, j
RECURSIVE RunLen(_, _, _, _, _, _)
RunLen(a, b, i, j, ahi, bhi) ==
    IF i < ahi /\ j < bhi /\ a[i] = b[j]
    THEN 1 + RunLen(a, b, i + 1, j + 1, ahi, bhi)
    ELSE 0

\* find_longest_match(alo, ahi, blo, bhi) without junk: the longest common
\* block; of those the one starting earliest in a; of those earliest in b.
\* Ranges are [alo, ahi) and [blo, bhi), 1-based.
FindLongestMatch(a, b, alo, ahi, blo, bhi) ==
    LET cand == { <<i, j>> \in (alo..(ahi - 1)) \X (blo..(bhi - 1)) : a[i] = b[j] }
        runs == [p \in cand |-> RunLen(a, b, p[1], p[2], ahi, bhi)]
        len(p) == runs[p]
    IN  IF cand = {}
        THEN [i |-> alo, j |-> blo, k |-> 0]
        ELSE LET best == CHOOSE p \in cand :
                            \A q \in cand :
                               \/ len(p) > len(q)
                               \/ /\ len(p) = len(q)
                                  /\ \/ p[1] < q[1]
                                     \/ p[1] = q[1] /\ p[2] <= q[2]
             IN  [i |-> best[1], j |-> best[2], k |-> len(best)]

\* get_matching_blocks(): total size of the blocks found by splitting
\* recursively to the left and to the right of the longest block
RECURSIVE MatchingSize(_, _, _, _, _, _)
MatchingSize(a, b, alo, ahi, blo, bhi) ==
    LET m == FindLongestMatch(a, b, alo, ahi, blo, bhi)
    IN  IF m.k = 0
        THEN 0
        ELSE m.k
             + MatchingSize(a, b, alo, m.i, blo, m.j)
             + MatchingSize(a, b, m.i + m.k, ahi, m.j + m.k, bhi)

\* SequenceMatcher.ratio(): 2.0 * matches / length, 1.0 when length is 0
Ratio(a, b) ==
    LET total == Len(a) + Len(b)
    IN  IF total = 0
        THEN [num |-> 1, den |-> 1]
        ELSE [num |-> 2 * MatchingSize(a, b, 1, Len(a) + 1, 1, Len(b) + 1),
              den |-> total]

\* similarity_score(a, b)
similarity_score(a, b) == Ratio(Lower(a), Lower(b))

(* ----------------------------- rationals ------------------------------ *)
\* comparisons of [num, den] records with positive denominators
RatGE(x, y) == x.num * y.den >= y.num * x.den
RatEq(x, y) == x.num * y.den = y.num * x.den
RatAdd(x, y) == [num |-> x.num * y.den + y.num * x.den, den |-> x.den * y.den]
RatMul(x, y) == [num |-> x.num * y.num, den |-> x.den * y.den]
RatMin(x, y) == IF RatGE(x, y) THEN y ELSE x

\* threshold=0.8, the default of match_skills
Threshold == [num |-> 8, den |-> 10]

(* ------------------------------- skills ------------------------------- *)
\* skills as extract_skills returns them (lower-case)
Python == <<"p", "y", "t", "h", "o", "n">>
Java == <<"j", "a", "v", "a">>
JavaScript == <<"j", "a", "v", "a", "s", "c", "r", "i", "p", "t">>
Py == <<"p", "y">>

\* items a user types into the required skills field
FormItems ==
    { Python, Java, <<" ", "P", "y", "h", "t", "o", "n">> }

(* ---------------------------- match_skills ---------------------------- *)
\* the condition of the if statement in the inner loop
FuzzyRule(candidate_skill, req_skill) ==
    \/ IsSubstring(Lower(req_skill), Lower(candidate_skill))
    \/ IsSubstring(Lower(candidate_skill), Lower(req_skill))
    \/ RatGE(similarity_score(candidate_skill, req_skill), Threshold)

\* the index at which the inner loop breaks: the first required skill, from
\* position j on, the candidate skill satisfies the rule against (0: the
\* loop runs to its end)
RECURSIVE FirstRuleIndexFrom(_, _, _)
FirstRuleIndexFrom(candidate_skill, required_skills, j) ==
    IF j > Len(required_skills)
    THEN 0
    ELSE IF FuzzyRule(candidate_skill, required_skills[j])
    THEN j
    ELSE FirstRuleIndexFrom(candidate_skill, required_skills, j + 1)

FirstRuleIndex(candidate_skill, required_skills) ==
    FirstRuleIndexFrom(candidate_skill, required_skills, 1)

\* x in lst
InList(x, lst) == \E i \in 1..Len(lst) : lst[i] = x

\* list.remove(x): drop the first occurrence
ListRemove(lst, x) ==
    LET p == CHOOSE i \in 1..Len(lst) : lst[i] = x /\ \A h \in 1..(i - 1) : lst[h] # x
    IN  SubSeq(lst, 1, p - 1) \o SubSeq(lst, p + 1, Len(lst))

\* one iteration of the outer loop, on the pair (matched, missing)
MatchSkillsStep(acc, candidate_skill, required_skills) ==
    LET j == FirstRuleIndex(candidate_skill, required_skills)
    IN  IF j # 0 /\ InList(required_skills[j], acc.missing)
        THEN [matched |-> Append(acc.matched, required_skills[j]),
              missing |-> ListRemove(acc.missing, required_skills[j])]
        ELSE acc

RECURSIVE MatchSkillsLoop(_, _, _, _)
MatchSkillsLoop(acc, candidate_skills, n, required_skills) ==
    IF n > Len(candidate_skills)
    THEN acc
    ELSE MatchSkillsLoop(MatchSkillsStep(acc, candidate_skills[n], required_skills),
                         candidate_skills, n + 1, required_skills)

match_skills(candidate_skills, required_skills) ==
    MatchSkillsLoop([matched |-> <<>>, missing |-> required_skills],
                    candidate_skills, 1, required_skills)

\* variant: missing_skills = required_skills, the same list under two names
MissingSkillsAliased == "required_skills"

\* missing_skills = required_skills.copy(): the list missing_skills names
MissingSkillsList == "copy"

\* the content of the caller's list required_skills when match_skills
\* returns: remove() is applied to the list missing_skills names
RequiredSkillsAfterMatchSkills(candidate_skills, required_skills) ==
    IF MissingSkillsList = "required_skills"
    THEN match_skills(candidate_skills, required_skills).missing
    ELSE required_skills

(* --------------------------- match_candidates ------------------------- *)
\* float comparisons; a NaN operand makes every ordered comparison False.
\* min_experience is [nan, v]; total_experience_years is an integer.
FloatLT(total, m) == ~m.nan /\ total < m.v
FloatGE(total, m) == ~m.nan /\ total >= m.v
FloatPositive(m) == ~m.nan /\ m.v > 0

\* candidate_key: lower-cased email if non-empty, else lower-cased name
CandidateKey(resume_info) ==
    IF Lower(resume_info.email) # <<>>
    THEN Lower(resume_info.email)
    ELSE Lower(resume_info.name)

\* skill_match_score
SkillMatchScore(matched_skills, required_skills) ==
    IF required_skills # <<>>
    THEN [num |-> Len(matched_skills), den |-> Len(required_skills)]
    ELSE [num |-> 1, den |-> 1]

\* variant: the bonus without its cap, (total - min) / 5.0
ExperienceScoreUncapped(total, min_experience) ==
    IF FloatPositive(min_experience)
    THEN [num |-> total - min_experience.v, den |-> 5]
    ELSE [num |-> 1, den |-> 2]

\* experience_score
ExperienceScore(total, min_experience) ==
    IF FloatPositive(min_experience)
    THEN RatMin([num |-> 1, den |-> 1],
                [num |-> total - min_experience.v, den |-> 5])
    ELSE [num |-> 1, den |-> 2]

\* variant: the two weights exchanged
MatchScoreWeightsSwapped(skill_match_score, experience_score) ==
    RatAdd(RatMul(skill_match_score, [num |-> 3, den |-> 10]),
           RatMul(experience_score, [num |-> 7, den |-> 10]))

\* match_score = (skill_match_score * 0.7) + (experience_score * 0.3)
MatchScore(skill_match_score, experience_score) ==
    RatAdd(RatMul(skill_match_score, [num |-> 7, den |-> 10]),
           RatMul(experience_score, [num |-> 3, den |-> 10]))

\* the experience filter: True when the record is skipped
InsufficientExperience(resume_info, min_experience) ==
    FloatLT(resume_info.total_experience_years, min_experience)

\* variant: the skill filter with its second condition negated
NoMatchingSkillsNegated(matched_skills, required_skills) ==
    Len(matched_skills) = 0 /\ required_skills = <<>>

\* the skill filter: True when the record is skipped
NoMatchingSkills(matched_skills, required_skills) ==
    Len(matched_skills) = 0 /\ required_skills # <<>>

\* the candidate_match dictionary built for a record that passed the filters
CandidateMatch(resume_id, resume_info, ms, required_skills, min_experience) ==
    [resume_id |-> resume_id,
     name |-> resume_info.name,
     skills |-> resume_info.skills,
     total_experience |-> resume_info.total_experience_years,
     matched_skills |-> ms.matched,
     missing_skills |-> ms.missing,
     match_score |->
         MatchScore(SkillMatchScore(ms.matched, required_skills),
                    ExperienceScore(resume_info.total_experience_years,
                                    min_experience))]

\* variant: the key is recorded as seen only for a record that is returned
MatchCandidatesStepSeenLate(acc, entry, required_skills, min_experience) ==
    LET key == CandidateKey(entry.info)
        ms == match_skills(entry.info.skills, required_skills)
    IN  IF key \in acc.seen_keys
        THEN acc
        ELSE IF InsufficientExperience(entry.info, min_experience)
        THEN acc
        ELSE IF NoMatchingSkills(ms.matched, required_skills)
        THEN acc
        ELSE [matching_candidates |->
                  Append(acc.matching_candidates,
                         CandidateMatch(entry.id, entry.info, ms, required_skills,
                                        min_experience)),
              seen_keys |-> acc.seen_keys \cup {key}]

\* the body of the for loop over resumes_data.items(), on the pair
\* (matching_candidates, seen_keys)
MatchCandidatesStep(acc, entry, required_skills, min_experience) ==
    LET key == CandidateKey(entry.info)
        seen == acc.seen_keys \cup {key}
        ms == match_skills(entry.info.skills, required_skills)
    IN  IF key \in acc.seen_keys
        THEN acc
        ELSE IF InsufficientExperience(entry.info, min_experience)
        THEN [acc EXCEPT !.seen_keys = seen]
        ELSE IF NoMatchingSkills(ms.matched, required_skills)
        THEN [acc EXCEPT !.seen_keys = seen]
        ELSE [matching_candidates |->
                  Append(acc.matching_candidates,
                         CandidateMatch(entry.id, entry.info, ms, required_skills,
                                        min_experience)),
              seen_keys |-> seen]

RECURSIVE MatchCandidatesLoop(_, _, _, _, _)
MatchCandidatesLoop(acc, store, n, required_skills, min_experience) ==
    IF n > Len(store)
    THEN acc
    ELSE MatchCandidatesLoop(
             MatchCandidatesStep(acc, store[n], required_skills, min_experience),
             store, n + 1, required_skills, min_experience)

\* the store is passed in iteration (insertion) order
match_candidates(store, required_skills, min_experience) ==
    MatchCandidatesLoop([matching_candidates |-> <<>>, seen_keys |-> {}],
                        store, 1, required_skills, min_experience).matching_candidates

\* the content of the caller's list required_skills when match_candidates
\* returns: match_skills is called for the first record of each key that
\* has the experience, each time with the same list
RECURSIVE RequiredSkillsAfterLoop(_, _, _, _, _)
RequiredSkillsAfterLoop(seen_keys, store, n, required_skills, min_experience) ==
    IF n > Len(store)
    THEN required_skills
    ELSE LET key == CandidateKey(store[n].info)
         IN  IF key \in seen_keys
             THEN RequiredSkillsAfterLoop(seen_keys, store, n + 1, required_skills,
                                          min_experience)
             ELSE IF InsufficientExperience(store[n].info, min_experience)
             THEN RequiredSkillsAfterLoop(seen_keys \cup {key}, store, n + 1,
                                          required_skills, min_experience)
             ELSE RequiredSkillsAfterLoop(
                      seen_keys \cup {key}, store, n + 1,
                      RequiredSkillsAfterMatchSkills(store[n].info.skills,
                                                     required_skills),
                      min_experience)

RequiredSkillsAfterMatchCandidates(store, required_skills, min_experience) ==
    RequiredSkillsAfterLoop({}, store, 1, required_skills, min_experience)

(* ---------------------------- rank_candidates ------------------------- *)
\* variant: an unstable sort, an element goes before the elements of equal
\* score already placed
RECURSIVE InsertDescendingUnstable(_, _)
InsertDescendingUnstable(sorted, c) ==
    IF sorted = <<>>
    THEN <<c>>
    ELSE IF RatGE(c.match_score, Head(sorted).match_score)
    THEN <<c>> \o sorted
    ELSE <<Head(sorted)>> \o InsertDescendingUnstable(Tail(sorted), c)

\* sorted(..., key=match_score, reverse=True) is stable: an element goes
\* after every element whose score is greater than or equal to its own
\* among those already placed
RECURSIVE InsertDescending(_, _)
InsertDescending(sorted, c) ==
    IF sorted = <<>>
    THEN <<c>>
    ELSE IF RatGE(Head(sorted).match_score, c.match_score)
    THEN <<Head(sorted)>> \o InsertDescending(Tail(sorted), c)
    ELSE <<c>> \o sorted

RECURSIVE SortedDescending(_, _)
SortedDescending(candidates, n) ==
    IF n = 0
    THEN <<>>
    ELSE InsertDescending(SortedDescending(candidates, n - 1), candidates[n])

\* candidate['rank'] = i + 1
AssignRank(sorted_candidates) ==
    [i \in 1..Len(sorted_candidates) |->
        [resume_id |-> sorted_candidates[i].resume_id,
         name |-> sorted_candidates[i].name,
         skills |-> sorted_candidates[i].skills,
         total_experience |-> sorted_candidates[i].total_experience,
         matched_skills |-> sorted_candidates[i].matched_skills,
         missing_skills |-> sorted_candidates[i].missing_skills,
         match_score |-> sorted_candidates[i].match_score,
         rank |-> i]]

rank_candidates(candidates) ==
    AssignRank(SortedDescending(candidates, Len(candidates)))

(* ------------------------------ documents ----------------------------- *)
\* Option values: Python's None is NoValue
NoValue == [some |-> FALSE]
Some(v) == [some |-> TRUE, val |-> v]

(* --------------------- education and experience ---------------------- *)
\* datetime.now(), as a year
NowYear == 2026

\* int() of a string of digits
DigitValue ==
    [c \in {"0", "1", "2", "3", "4", "5", "6", "7", "8", "9"} |->
        CASE c = "0" -> 0 [] c = "1" -> 1 [] c = "2" -> 2 [] c = "3" -> 3
          [] c = "4" -> 4 [] c = "5" -> 5 [] c = "6" -> 6 [] c = "7" -> 7
          [] c = "8" -> 8 [] c = "9" -> 9]

IsNumber(s) == s # <<>> /\ \A i \in 1..Len(s) : s[i] \in DOMAIN DigitValue

RECURSIVE NumberValue(_)
NumberValue(s) ==
    IF s = <<>>
    THEN 0
    ELSE 10 * NumberValue(SubSeq(s, 1, Len(s) - 1)) + DigitValue[s[Len(s)]]

\* date_parser.parse(text, fuzzy=True) on a text that is a number or has no
\* number in it.  A number above 31 is a year, and the month and the day are
\* today's, so dates are years and differences are whole years; a number up
\* to 31 is a day of the current month, and day 0 does not exist; a text
\* without a number holds no date.  NoValue: the call raises.
date_parser_parse(text) ==
    LET t == Strip(text)
    IN  IF ~IsNumber(t) THEN NoValue
        ELSE IF NumberValue(t) > 31 THEN Some(NumberValue(t))
        ELSE IF NumberValue(t) = 0 THEN NoValue
        ELSE Some(NowYear)

\* relativedelta(end, start): years + months / 12
DurationYears(end_date, start_date) == end_date - start_date

\* any(current in text.lower() for current in ["present", "current", "now"])
CurrentWords ==
    { <<"p", "r", "e", "s", "e", "n", "t">>,
      <<"c", "u", "r", "r", "e", "n", "t">>,
      <<"n", "o", "w">> }

IsCurrent(text) == \E w \in CurrentWords : IsSubstring(w, Lower(text))

\* the try block of extract_experience on date_text = date_matches[0]: the
\* dates and the duration the entry has after it.  An assignment made before
\* a call raises stays; the duration is computed after both parses.
ExperienceDates(date_text) ==
    LET date_parts == Split(date_text, "-")
        start == date_parser_parse(Strip(date_parts[1]))
        end_text == IF Len(date_parts) > 1 THEN Strip(date_parts[2]) ELSE <<>>
        end == IF IsCurrent(end_text) THEN Some(NowYear) ELSE date_parser_parse(end_text)
    IN  IF IsSubstring(<<"-">>, date_text)
        THEN IF ~start.some
             THEN [start_date |-> NoValue, end_date |-> NoValue, duration_years |-> 0]
             ELSE IF end_text = <<>>
             THEN [start_date |-> start, end_date |-> NoValue,
                   duration_years |-> DurationYears(NowYear, start.val)]
             ELSE IF ~end.some
             THEN [start_date |-> start, end_date |-> NoValue, duration_years |-> 0]
             ELSE [start_date |-> start, end_date |-> end,
                   duration_years |-> DurationYears(end.val, start.val)]
        ELSE LET single == date_parser_parse(date_text)
             IN  IF ~single.some
                 THEN [start_date |-> NoValue, end_date |-> NoValue, duration_years |-> 0]
                 ELSE [start_date |-> single, end_date |-> NoValue,
                       duration_years |-> DurationYears(NowYear, single.val)]

\* one job entry: its raw text and what the date pattern finds in it
JobEntry(text, date_matches) ==
    [text |-> text, date_matches |-> date_matches]

\* the Experience object built for one job entry; description is the entry
ExperienceOf(entry) ==
    LET dates == IF entry.date_matches # <<>>
                 THEN ExperienceDates(entry.date_matches[1])
                 ELSE [start_date |-> NoValue, end_date |-> NoValue, duration_years |-> 0]
    IN  [description |-> entry,
         start_date |-> dates.start_date,
         end_date |-> dates.end_date,
         duration_years |-> dates.duration_years]

\* extract_experience: the loop over job_entries; blank entries are skipped
RECURSIVE extract_experience(_)
extract_experience(job_entries) ==
    IF job_entries = <<>>
    THEN <<>>
    ELSE IF Strip(Head(job_entries).text) = <<>>
    THEN extract_experience(Tail(job_entries))
    ELSE <<ExperienceOf(Head(job_entries))>> \o extract_experience(Tail(job_entries))

\* calculate_total_experience
RECURSIVE calculate_total_experience(_)
calculate_total_experience(experience_list) ==
    IF experience_list = <<>>
    THEN 0
    ELSE Head(experience_list).duration_years
            + calculate_total_experience(Tail(experience_list))

\* the try block of extract_education on date_text = dates[i]
EducationDates(date_text) ==
    LET date_parts == Split(date_text, "-")
        start == date_parser_parse(Strip(date_parts[1]))
        end_text == IF Len(date_parts) > 1 THEN Strip(date_parts[2]) ELSE <<>>
        end == IF IsCurrent(end_text) THEN Some(NowYear) ELSE date_parser_parse(end_text)
    IN  IF IsSubstring(<<"-">>, date_text)
        THEN IF ~start.some
             THEN [start_date |-> NoValue, end_date |-> NoValue]
             ELSE IF end_text = <<>>
             THEN [start_date |-> start, end_date |-> NoValue]
             ELSE IF ~end.some
             THEN [start_date |-> start, end_date |-> NoValue]
             ELSE [start_date |-> start, end_date |-> end]
        ELSE [start_date |-> NoValue, end_date |-> date_parser_parse(Strip(date_text))]

\* extract_education: one Education object per degree found, the i-th with
\* the i-th date text when there is one
extract_education(potential_degrees, dates) ==
    [i \in 1..Len(potential_degrees) |->
        LET d == IF i <= Len(dates)
                 THEN EducationDates(dates[i])
                 ELSE [start_date |-> NoValue, end_date |-> NoValue]
        IN  [degree |-> Strip(potential_degrees[i]),
             start_date |-> d.start_date,
             end_date |-> d.end_date]]

\* date texts as the date pattern returns them
Text2019To2023 == <<" ", "2", "0", "1", "9", " ", "-", " ", "2", "0", "2", "3">>
Text2010To2019 == <<"2", "0", "1", "0", "-", "2", "0", "1", "9">>
Text2021To2020 == <<"2", "0", "2", "1", "-", "2", "0", "2", "0">>
Text2019To0000 == <<"2", "0", "1", "9", "-", "0", "0", "0", "0">>
Text0000To2019 == <<"0", "0", "0", "0", "-", "2", "0", "1", "9">>
Text2025 == <<" ", "2", "0", "2", "5">>
Text2015 == <<"2", "0", "1", "5">>
Dev == <<"d", "e", "v">>
Bs == <<"b", "s">>

\* what a document's text holds: the name, the email address and the skills
\* the extractors find in it, the degrees and the date texts of its education
\* section, and the job entries of its experience section
Content(name, email, skills, potential_degrees, dates, job_entries) ==
    [name |-> name, email |-> email, skills |-> skills,
     potential_degrees |-> potential_degrees, dates |-> dates,
     job_entries |-> job_entries]

ContentAl ==
    Content(<<"A", "l">>, <<"a", "@", "x">>, <<Python>>,
            <<Bs>>, <<Text2019To0000>>,
            <<JobEntry(Dev, <<Text2019To2023>>)>>)
ContentAlUpper ==
    Content(<<"A", "l">>, <<"A", "@", "x">>, <<JavaScript, Python>>,
            <<Bs>>, <<Text2015>>,
            <<JobEntry(Dev, <<Text2010To2019>>), JobEntry(Dev, <<Text2019To0000>>)>>)
ContentBo ==
    Content(<<"B", "o">>, <<>>, <<JavaScript>>,
            <<Bs, Bs>>, <<Text0000To2019>>,
            <<JobEntry(Dev, <<Text0000To2019>>), JobEntry(<<" ">>, <<>>),
              JobEntry(Dev, <<Text2025>>)>>)
ContentCy ==
    Content(<<"C", "y">>, <<>>, <<Py>>,
            <<>>, <<>>,
            <<JobEntry(Dev, <<Text2021To2020>>)>>)

\* the ResumeInfo object extract_information builds: name, contact["email"],
\* skills, education, experience, total_experience_years
ResumeInfo(content) ==
    LET experience == extract_experience(content.job_entries)
    IN  [name |-> content.name, email |-> content.email, skills |-> content.skills,
         education |-> extract_education(content.potential_degrees, content.dates),
         experience |-> experience,
         total_experience_years |-> calculate_total_experience(experience)]

InfoAl == ResumeInfo(ContentAl)
InfoAlUpper == ResumeInfo(ContentAlUpper)
InfoBo == ResumeInfo(ContentBo)
InfoCy == ResumeInfo(ContentCy)
ResumeInfos == {InfoAl, InfoAlUpper, InfoBo, InfoCy}

\* file names of the uploaded parts
PdfName == <<"c", "v", ".", "p", "d", "f">>
PdfUpperName == <<"c", "v", ".", "P", "D", "F">>
TxtName == <<"c", "v", ".", "t", "x", "t">>

\* pages of a PDF: the text layer of the page and what OCR reads from it
TextPage == [text |-> <<"c", "v">>, ocr |-> <<>>]
ScannedPage == [text |-> <<>>, ocr |-> <<"c", "v">>]
EmptyPage == [text |-> <<>>, ocr |-> <<>>]
BlankPage == [text |-> <<" ">>, ocr |-> <<" ", "\n">>]

\* An uploaded document: its file name, whether file.save succeeds, whether
\* pdfplumber reads it without raising, its pages, what its text holds, and
\* whether an extractor raises on it.
Document(name, save_ok, read_ok, pages, content, extract_ok) ==
    [filename |-> name, save_ok |-> save_ok, read_ok |-> read_ok, pages |-> pages,
     content |-> content, extract_ok |-> extract_ok]

GoodDocument(name, pages, content) ==
    Document(name, TRUE, TRUE, pages, content, TRUE)

Documents ==
    { GoodDocument(PdfName, <<TextPage>>, ContentAl),
      GoodDocument(PdfUpperName, <<TextPage, EmptyPage>>, ContentAlUpper),
      GoodDocument(PdfName, <<ScannedPage>>, ContentBo),
      GoodDocument(PdfName, <<BlankPage, TextPage>>, ContentCy),
      \* not a PDF by its name
      GoodDocument(TxtName, <<TextPage>>, ContentAl),
      \* a part with no file name
      GoodDocument(<<>>, <<TextPage>>, ContentAl),
      \* file.save raises
      Document(PdfName, FALSE, TRUE, <<TextPage>>, ContentAl, TRUE),
      \* pdfplumber or OCR raises inside parse_resume
      Document(PdfName, TRUE, FALSE, <<TextPage>>, ContentAl, TRUE),
      \* no text on any page
      Document(PdfName, TRUE, TRUE, <<EmptyPage, BlankPage>>, ContentAl, TRUE),
      \* an extractor raises inside extract_information
      Document(PdfName, TRUE, TRUE, <<TextPage>>, ContentAl, FALSE) }

\* sequences of at most n elements of S
SeqUpTo(S, n) == UNION { [1..k -> S] : k \in 0..n }

(* ------------------------------- app.py ------------------------------- *)
\* allowed_file(filename)
ALLOWED_EXTENSIONS == {<<"p", "d", "f">>}

allowed_file(filename) ==
    /\ \E i \in 1..Len(filename) : filename[i] = "."
    /\ LET parts == Split(filename, ".")
       IN  Lower(parts[Len(parts)]) \in ALLOWED_EXTENSIONS

\* parse_resume: the page texts, each followed by a newline; None when that
\* is all whitespace or when reading raises
RECURSIVE PagesText(_)
PagesText(pages) ==
    IF pages = <<>>
    THEN <<>>
    ELSE LET page == Head(pages)
             page_text == IF Strip(page.text) = <<>> THEN page.ocr ELSE page.text
         IN  page_text \o <<"\n">> \o PagesText(Tail(pages))

\* variant: parse_resume without the test  if not text.strip()
parse_resume_unstripped(doc) ==
    IF ~doc.read_ok THEN NoValue ELSE Some(PagesText(doc.pages))

parse_resume(doc) ==
    IF ~doc.read_ok
    THEN NoValue
    ELSE IF Strip(PagesText(doc.pages)) = <<>>
    THEN NoValue
    ELSE Some(PagesText(doc.pages))

\* extract_information(text): None for an empty text or when an extractor
\* raises, else the ResumeInfo built from the text
extract_information(text, doc) ==
    IF text = <<>> THEN NoValue
    ELSE IF ~doc.extract_ok THEN NoValue
    ELSE Some(ResumeInfo(doc.content))

\* not x, for an Option holding a string
NotTruthy(opt) == ~opt.some \/ opt.val = <<>>

\* what one iteration of the upload loop does with a file:
\* "skipped" (not allowed), "parsed" or "failed"
FileOutcome(file) ==
    IF ~(file.filename # <<>> /\ allowed_file(file.filename))
    THEN "skipped"
    ELSE IF ~file.save_ok
    THEN "failed"
    ELSE LET resume_text == parse_resume(file)
         IN  IF NotTruthy(resume_text)
             THEN "failed"
             ELSE IF extract_information(resume_text.val, file).some
             THEN "parsed"
             ELSE "failed"

\* variant: a failed document ends the loop
LoopEndsOnFailure(i, fs, outcome) ==
    IF outcome = "failed" THEN Len(fs) + 1 ELSE i + 1

\* where the for loop goes after a file: to the next file, whatever happened
LoopNext(i, fs, outcome) == i + 1

\* the comma-separated required_skills field, as the search handler reads it
ParseRequiredSkills(field) ==
    LET items == Split(Strip(field), ",")
        picked == { i \in 1..Len(items) : Strip(items[i]) # <<>> }
        nth(k) == CHOOSE i \in picked : Cardinality({ h \in picked : h <= i }) = k
    IN  [k \in 1..Cardinality(picked) |-> Lower(Strip(items[nth(k)]))]

\* float(min_experience), 0 on ValueError
ParseMinExperience(field) ==
    CASE field.kind = "number" -> [nan |-> FALSE, v |-> field.v]
      [] field.kind = "nan" -> [nan |-> TRUE, v |-> 0]
      [] OTHER -> [nan |-> FALSE, v |-> 0]

RequiredSkillsFields == { Join(items, ",") : items \in SeqUpTo(FormItems, MaxItems) }

\* values of the min_experience field
MinExperienceFields ==
    { [kind |-> "number", v |-> n] : n \in {-1, 0, 3} }
        \cup { [kind |-> "nan"], [kind |-> "invalid"] }

(* -------------------------------- state ------------------------------- *)
VARIABLES
    resumes_data,         \* the store, in insertion order: [id, filename, info]
    next_id,              \* the next uuid4 value
    session_has_resumes,  \* session['has_resumes']
    flashed,              \* messages flashed by the latest request
    request,              \* the handler serving a request, "none" between requests
    upl_pc,               \* upload request: "idle", "loop", "done", "rejected"
    files,                \* upload request: request.files.getlist('files[]')
    clear_previous,       \* upload request: the clear_previous field is 'true'
    file_idx,             \* upload request: position of the for loop
    parsed_count,         \* upload request
    failed_count,         \* upload request
    form,                 \* search request: request.form
    required_skills,      \* search request
    min_experience,       \* search request
    matching_candidates,  \* search request: result of match_candidates
    top_candidates,       \* search request: result of rank_candidates
    other                 \* a request of another client served at the same time

vars ==
    <<resumes_data, next_id, session_has_resumes, flashed, request, upl_pc, files,
      clear_previous, file_idx, parsed_count, failed_count, form, required_skills,
      min_experience, matching_candidates, top_candidates, other>>

search_vars ==
    <<form, required_skills, min_experience, matching_candidates, top_candidates>>

\* no second request: its handler ("none", "clear" or "upload") and the
\* locals of upload_file
NoOther ==
    [request |-> "none", pc |-> "idle", files |-> <<>>, file_idx |-> 1,
     parsed_count |-> 0, failed_count |-> 0]

\* request.form of a request without fields: the defaults of form.get
NoForm == [required_skills |-> <<>>, min_experience |-> [kind |-> "number", v |-> 0]]

\* the locals of a request that has not run
NoUpload ==
    /\ upl_pc' = "idle"
    /\ files' = <<>>
    /\ clear_previous' = FALSE
    /\ file_idx' = 1
    /\ parsed_count' = 0
    /\ failed_count' = 0

NoSearch ==
    /\ form' = NoForm
    /\ required_skills' = <<>>
    /\ min_experience' = [nan |-> FALSE, v |-> 0]
    /\ matching_candidates' = <<>>
    /\ top_candidates' = <<>>

Init ==
    /\ resumes_data = <<>>
    /\ next_id = 1
    /\ session_has_resumes = FALSE
    /\ flashed = {}
    /\ request = "none"
    /\ upl_pc = "idle"
    /\ files = <<>>
    /\ clear_previous = FALSE
    /\ file_idx = 1
    /\ parsed_count = 0
    /\ failed_count = 0
    /\ form = NoForm
    /\ required_skills = <<>>
    /\ min_experience = [nan |-> FALSE, v |-> 0]
    /\ matching_candidates = <<>>
    /\ top_candidates = <<>>
    /\ other = NoOther

\* requests are handled one at a time: a new one starts when the previous
\* one has returned
NoRequestRunning == request = "none"

\* what the loop does with each document, tabulated
DocumentOutcome == [doc \in Documents |-> FileOutcome(doc)]

\* number of files of fs that draw a uuid4
AllowedCount(fs) ==
    Cardinality({ i \in 1..Len(fs) : DocumentOutcome[fs[i]] # "skipped" })

(* ------------------------------- /upload ------------------------------ *)
\* variant: the store keyed by file name, a record replaces the one stored
\* under the same file name
StoreInsertByFilename(store, rec) ==
    IF \E i \in 1..Len(store) : store[i].filename = rec.filename
    THEN LET p == CHOOSE i \in 1..Len(store) : store[i].filename = rec.filename
         IN  [store EXCEPT ![p] = rec]
    ELSE Append(store, rec)

\* resumes_data[resume_id] = {...}: a dict keeps insertion order, and an
\* assignment to a key it has replaces the value in place
StoreInsert(store, rec) ==
    IF \E i \in 1..Len(store) : store[i].id = rec.id
    THEN LET p == CHOOSE i \in 1..Len(store) : store[i].id = rec.id
         IN  [store EXCEPT ![p] = rec]
    ELSE Append(store, rec)

\* the two early returns: 'files[]' missing, or no files / an empty first
\* file name
NoFilePart(has_part) == ~has_part
NoFilesSelected(fs) == IF fs = <<>> THEN TRUE ELSE fs[1].filename = <<>>

\* an early return: flash, redirect
UploadReject(has_part, fs) ==
    /\ NoRequestRunning
    /\ IF NoFilePart(has_part) THEN TRUE ELSE NoFilesSelected(fs)
    /\ request' = "upload"
    /\ flashed' = IF NoFilePart(has_part) THEN {"No file part"} ELSE {"No files selected"}
    /\ upl_pc' = "rejected"
    /\ files' = <<>>
    /\ clear_previous' = FALSE
    /\ file_idx' = 1
    /\ parsed_count' = 0
    /\ failed_count' = 0
    /\ NoSearch
    /\ UNCHANGED <<resumes_data, next_id, session_has_resumes, other>>

\* the handler up to the for loop
UploadBegin(fs, clear) ==
    /\ NoRequestRunning
    /\ ~NoFilesSelected(fs)
    /\ next_id - 1 + AllowedCount(fs) <= MaxIds
    /\ request' = "upload"
    /\ flashed' = {}
    /\ resumes_data' = IF clear THEN <<>> ELSE resumes_data
    /\ upl_pc' = "loop"
    /\ files' = fs
    /\ clear_previous' = clear
    /\ file_idx' = 1
    /\ parsed_count' = 0
    /\ failed_count' = 0
    /\ NoSearch
    /\ UNCHANGED <<next_id, session_has_resumes, other>>

\* one iteration of the for loop.  The temporary file written by file.save
\* is removed in the finally clause of the same iteration.
UploadFile ==
    /\ upl_pc = "loop"
    /\ file_idx <= Len(files)
    /\ LET file == files[file_idx]
           outcome == FileOutcome(file)
       IN  /\ next_id' = IF outcome = "skipped" THEN next_id ELSE next_id + 1
           /\ resumes_data' =
                 IF outcome = "parsed"
                 THEN StoreInsert(resumes_data,
                                  [id |-> next_id, filename |-> file.filename,
                                   info |-> extract_information(parse_resume(file).val,
                                                                file).val])
                 ELSE resumes_data
           /\ parsed_count' = IF outcome = "parsed" THEN parsed_count + 1 ELSE parsed_count
           /\ failed_count' = IF outcome = "failed" THEN failed_count + 1 ELSE failed_count
           /\ file_idx' = LoopNext(file_idx, files, outcome)
    /\ UNCHANGED <<session_has_resumes, flashed, request, upl_pc, files, clear_previous,
                   search_vars, other>>

\* after the loop: the flashes, the session flag, the redirect
UploadEnd ==
    /\ upl_pc = "loop"
    /\ file_idx > Len(files)
    /\ flashed' = (IF parsed_count > 0 THEN {"Successfully parsed"} ELSE {})
                     \cup (IF failed_count > 0 THEN {"Failed to parse"} ELSE {})
    /\ session_has_resumes' = (Len(resumes_data) > 0)
    /\ upl_pc' = "done"
    /\ UNCHANGED <<resumes_data, next_id, request, files, clear_previous, file_idx,
                   parsed_count, failed_count, search_vars, other>>

(* ------------------------------- /search ------------------------------ *)
SearchEmpty ==
    /\ NoRequestRunning
    /\ resumes_data = <<>>
    /\ request' = "search"
    /\ flashed' = {"No resumes have been uploaded yet"}
    /\ NoUpload
    /\ NoSearch
    /\ UNCHANGED <<resumes_data, next_id, session_has_resumes, other>>

Search(skills_field, experience_field) ==
    /\ NoRequestRunning
    /\ resumes_data # <<>>
    /\ request' = "search"
    /\ flashed' = {}
    /\ form' = [required_skills |-> skills_field, min_experience |-> experience_field]
    /\ min_experience' = ParseMinExperience(experience_field)
    /\ LET skills == ParseRequiredSkills(skills_field)
       IN  /\ matching_candidates' =
                 match_candidates(resumes_data, skills, min_experience')
           /\ required_skills' =
                 RequiredSkillsAfterMatchCandidates(resumes_data, skills,
                                                    min_experience')
    /\ top_candidates' = rank_candidates(matching_candidates')
    /\ NoUpload
    /\ UNCHANGED <<resumes_data, next_id, session_has_resumes, other>>

(* ------------------------------- /clear ------------------------------- *)
clear_data ==
    /\ NoRequestRunning
    /\ request' = "clear"
    /\ resumes_data' = <<>>
    /\ session_has_resumes' = FALSE
    /\ flashed' = {"All resume data has been cleared"}
    /\ NoUpload
    /\ NoSearch
    /\ UNCHANGED <<next_id, other>>

(* ------------------------------- return ------------------------------ *)
\* The handler returns its response: its locals go out of scope, and the
\* page that is rendered next shows the flashed messages and so consumes them.
Return ==
    /\ request # "none"
    /\ upl_pc # "loop"
    /\ request' = "none"
    /\ flashed' = {}
    /\ NoUpload
    /\ NoSearch
    /\ UNCHANGED <<resumes_data, next_id, session_has_resumes, other>>

\* a request arrives with its form fields and files
UploadRejectRequest ==
    /\ NoRequestRunning
    /\ \E has_part \in BOOLEAN, fs \in SeqUpTo(Documents, MaxFiles) :
          /\ has_part = (fs # <<>>)
          /\ UploadReject(has_part, fs)

UploadRequest ==
    /\ NoRequestRunning
    /\ \E fs \in SeqUpTo(Documents, MaxFiles), clear \in BOOLEAN :
          UploadBegin(fs, clear)

SearchRequest ==
    /\ NoRequestRunning
    /\ resumes_data # <<>>
    /\ \E skills_field \in RequiredSkillsFields, experience_field \in MinExperienceFields :
          Search(skills_field, experience_field)

Next ==
    \/ UploadRejectRequest
    \/ UploadRequest
    \/ UploadFile
    \/ UploadEnd
    \/ SearchEmpty
    \/ SearchRequest
    \/ clear_data
    \/ Return

Spec == Init /\ [][Next]_vars

(* ------------------------- concurrent requests ------------------------ *)
\* The server handles each request in a thread of its own, and resumes_data
\* is shared by all of them without a lock.  While an upload is being
\* served, a second request is served at the same time: a /clear request or
\* an upload with clear_previous, of another client (its session and its
\* flashes are its own).  Each statement on resumes_data is one step.

\* the documents of the uploads that are served at the same time
ConcurrentDocuments ==
    { GoodDocument(PdfName, <<TextPage>>, ContentAl),
      GoodDocument(PdfName, <<ScannedPage>>, ContentBo),
      Document(PdfName, TRUE, TRUE, <<EmptyPage, BlankPage>>, ContentAl, TRUE) }

\* the upload begins while no other request is served
ConcurrentUploadRequest ==
    /\ NoRequestRunning
    /\ other = NoOther
    /\ \E fs \in SeqUpTo(ConcurrentDocuments, MaxFiles), clear \in BOOLEAN :
          UploadBegin(fs, clear)

\* uuid4 values the upload will still draw
PendingIds ==
    Cardinality({ i \in file_idx..Len(files) : FileOutcome(files[i]) # "skipped" })

\* clear_data of the second request
OtherClear ==
    /\ request = "upload"
    /\ other.request = "none"
    /\ resumes_data' = <<>>
    /\ other' = [NoOther EXCEPT !.request = "clear", !.pc = "done"]
    /\ UNCHANGED <<next_id, session_has_resumes, flashed, request, upl_pc, files,
                   clear_previous, file_idx, parsed_count, failed_count, search_vars>>

\* upload_file of the second request, with clear_previous, up to its loop
OtherUploadBegin(fs) ==
    /\ request = "upload"
    /\ other.request = "none"
    /\ ~NoFilesSelected(fs)
    /\ next_id - 1 + PendingIds + AllowedCount(fs) <= MaxIds
    /\ resumes_data' = <<>>
    /\ other' = [NoOther EXCEPT !.request = "upload", !.pc = "loop", !.files = fs]
    /\ UNCHANGED <<next_id, session_has_resumes, flashed, request, upl_pc, files,
                   clear_previous, file_idx, parsed_count, failed_count, search_vars>>

OtherUploadRequest ==
    /\ request = "upload"
    /\ other.request = "none"
    /\ \E fs \in SeqUpTo(ConcurrentDocuments, MaxFiles) : OtherUploadBegin(fs)

\* one iteration of the loop of the second upload
OtherUploadFile ==
    /\ other.pc = "loop"
    /\ other.file_idx <= Len(other.files)
    /\ LET file == other.files[other.file_idx]
           outcome == FileOutcome(file)
       IN  /\ next_id' = IF outcome = "skipped" THEN next_id ELSE next_id + 1
           /\ resumes_data' =
                 IF outcome = "parsed"
                 THEN StoreInsert(resumes_data,
                                  [id |-> next_id, filename |-> file.filename,
                                   info |-> extract_information(parse_resume(file).val,
                                                                file).val])
                 ELSE resumes_data
           /\ other' =
                 [other EXCEPT
                     !.parsed_count = IF outcome = "parsed" THEN @ + 1 ELSE @,
                     !.failed_count = IF outcome = "failed" THEN @ + 1 ELSE @,
                     !.file_idx = LoopNext(@, other.files, outcome)]
    /\ UNCHANGED <<session_has_resumes, flashed, request, upl_pc, files, clear_previous,
                   file_idx, parsed_count, failed_count, search_vars>>

OtherUploadEnd ==
    /\ other.pc = "loop"
    /\ other.file_idx > Len(other.files)
    /\ other' = [other EXCEPT !.pc = "done"]
    /\ UNCHANGED <<resumes_data, next_id, session_has_resumes, flashed, request, upl_pc,
                   files, clear_previous, file_idx, parsed_count, failed_count,
                   search_vars>>

\* both handlers return
ReturnBoth ==
    /\ request = "upload"
    /\ upl_pc = "done"
    /\ other.pc # "loop"
    /\ request' = "none"
    /\ flashed' = {}
    /\ NoUpload
    /\ NoSearch
    /\ other' = NoOther
    /\ UNCHANGED <<resumes_data, next_id, session_has_resumes>>

NextConcurrent ==
    \/ ConcurrentUploadRequest
    \/ UploadFile
    \/ UploadEnd
    \/ OtherClear
    \/ OtherUploadRequest
    \/ OtherUploadFile
    \/ OtherUploadEnd
    \/ ReturnBoth

SpecConcurrent == Init /\ [][NextConcurrent]_vars

(* ------------------------------ helpers ------------------------------- *)
Range(seq) == { seq[i] : i \in 1..Len(seq) }

\* the position in the store of the record with this id
StoreIndex(resume_id) ==
    CHOOSE i \in 1..Len(resumes_data) : resumes_data[i].id = resume_id

\* a search has computed its results and not yet returned
SearchDone == request = "search" /\ resumes_data # <<>>

Zero == [num |-> 0, den |-> 1]
One == [num |-> 1, den |-> 1]
Half == [num |-> 1, den |-> 2]

(* ------------------------------- claims ------------------------------- *)

\* C1: every result of match_candidates has matched_skills and
\* missing_skills disjoint, and their union is the set of required skills.
\* The search handler passes the list of the form field without removing
\* duplicates; with "python,python" and a candidate skill python the skill
\* is both matched and missing.
C1_MatchedMissingPartition ==
    \A i \in 1..Len(matching_candidates) :
        LET r == matching_candidates[i]
        IN  /\ Range(r.matched_skills) \cap Range(r.missing_skills) = {}
            /\ Range(r.matched_skills) \cup Range(r.missing_skills)
                  = Range(required_skills)

\* C2: a required skill is matched exactly when some candidate skill
\* satisfies the fuzzy rule against it, and is missing otherwise.  The inner
\* loop breaks at the first required skill a candidate skill satisfies the
\* rule against, so the later ones it also satisfies stay missing.
C2_MatchedIffSomeSkillSatisfiesRule ==
    \A i \in 1..Len(matching_candidates) :
        LET r == matching_candidates[i]
        IN  \A q \in Range(required_skills) :
                LET some == \E c \in Range(r.skills) : FuzzyRule(c, q)
                IN  /\ (q \in Range(r.matched_skills)) <=> some
                    /\ ~some => q \in Range(r.missing_skills)

\* C3: match_candidates returns at most one result per candidate key, and
\* the result of a key is the first record of the store with that key.
C3_OneResultPerKeyFromFirstRecord ==
    /\ \A i, j \in 1..Len(matching_candidates) :
          i # j =>
             CandidateKey(resumes_data[StoreIndex(matching_candidates[i].resume_id)].info)
                # CandidateKey(resumes_data[StoreIndex(matching_candidates[j].resume_id)].info)
    /\ \A i \in 1..Len(matching_candidates) :
          LET p == StoreIndex(matching_candidates[i].resume_id)
          IN  \A h \in 1..(p - 1) :
                 CandidateKey(resumes_data[h].info) # CandidateKey(resumes_data[p].info)

\* C3 witness: two stored records share a key, the first one fails the skill
\* filter, the second one alone would pass, and the search returns nothing.
C3_Witness ==
    /\ SearchDone
    /\ Len(resumes_data) = 2
    /\ resumes_data[1].info # resumes_data[2].info
    /\ CandidateKey(resumes_data[1].info) = CandidateKey(resumes_data[2].info)
    /\ required_skills = <<Java>>
    /\ \E c \in Range(resumes_data[2].info.skills) : FuzzyRule(c, Java)
    /\ resumes_data[2].info.total_experience_years >= 0
    /\ ~min_experience.nan /\ min_experience.v = 0
    /\ matching_candidates = <<>>

\* C4: every result has 0 <= match_score <= 1.
C4_ScoreInUnitInterval ==
    \A i \in 1..Len(matching_candidates) :
        /\ RatGE(matching_candidates[i].match_score, Zero)
        /\ RatGE(One, matching_candidates[i].match_score)

\* C4 witness: a result whose experience exceeds a positive minimum by more
\* than five years and that matches every required skill scores exactly 1.
C4_Witness ==
    /\ SearchDone
    /\ FloatPositive(min_experience)
    /\ \E i \in 1..Len(matching_candidates) :
          /\ matching_candidates[i].total_experience - min_experience.v > 5
          /\ RatEq(matching_candidates[i].match_score, One)

\* C5: rank_candidates returns a permutation of its input, ordered by
\* match_score descending, equal scores in input order, ranks 1..N.
C5_RankedStableDescending ==
    LET n == Len(top_candidates)
        pos(k) == CHOOSE i \in 1..Len(matching_candidates) :
                     matching_candidates[i].resume_id = top_candidates[k].resume_id
    IN  /\ n = Len(matching_candidates)
        /\ \A k \in 1..n :
              /\ \E i \in 1..n :
                    matching_candidates[i].resume_id = top_candidates[k].resume_id
              /\ [f \in DOMAIN matching_candidates[pos(k)] |-> top_candidates[k][f]]
                    = matching_candidates[pos(k)]
              /\ top_candidates[k].rank = k
        /\ \A k, l \in 1..n :
              k < l =>
                 /\ top_candidates[k].resume_id # top_candidates[l].resume_id
                 /\ RatGE(top_candidates[k].match_score, top_candidates[l].match_score)
                 /\ RatEq(top_candidates[k].match_score, top_candidates[l].match_score)
                       => pos(k) < pos(l)

\* C5 witness: two results, the second of the input ranked first.
C5_Witness ==
    /\ SearchDone
    /\ Len(top_candidates) = 2
    /\ top_candidates[1].resume_id = matching_candidates[2].resume_id
    /\ ~RatEq(top_candidates[1].match_score, top_candidates[2].match_score)

\* C6: every result has total_experience >= min_experience.  float() accepts
\* "nan"; every comparison with NaN is False, so no record is filtered and
\* no result satisfies total_experience >= min_experience.
C6_ResultsHaveMinExperience ==
    \A i \in 1..Len(matching_candidates) :
        FloatGE(matching_candidates[i].total_experience, min_experience)

\* C7: match_score = 0.7 * skillScore + 0.3 * experienceScore, with
\* skillScore = |matched| / |required| (1 when nothing is required) and
\* experienceScore = clamp((total - min) / 5, 0, 1) when min > 0, else 0.5;
\* required {python, java} against skills {python} with minimum 0 gives
\* matched {python}, missing {java} and score 0.5.
C7_SkillScore(r) ==
    IF Len(required_skills) = 0
    THEN One
    ELSE [num |-> Len(r.matched_skills), den |-> Len(required_skills)]

C7_ExperienceScore(r) ==
    IF ~min_experience.nan /\ min_experience.v > 0
    THEN LET d == r.total_experience - min_experience.v
         IN  IF d < 0 THEN Zero
             ELSE IF d > 5 THEN One
             ELSE [num |-> d, den |-> 5]
    ELSE Half

C7_ScoreFormula ==
    \A i \in 1..Len(matching_candidates) :
        LET r == matching_candidates[i]
            sk == C7_SkillScore(r)
            ex == C7_ExperienceScore(r)
        IN  /\ RatEq(r.match_score,
                     [num |-> 7 * sk.num * ex.den + 3 * ex.num * sk.den,
                      den |-> 10 * sk.den * ex.den])
            /\ (/\ required_skills = <<Python, Java>>
                /\ r.skills = <<Python>>
                /\ ~min_experience.nan /\ min_experience.v = 0)
               => /\ r.matched_skills = <<Python>>
                  /\ r.missing_skills = <<Java>>
                  /\ RatEq(r.match_score, Half)

\* C7 witness: the search for python, java with minimum 0 returns a candidate
\* whose only skill is python.
C7_Witness ==
    /\ SearchDone
    /\ required_skills = <<Python, Java>>
    /\ ~min_experience.nan /\ min_experience.v = 0
    /\ \E i \in 1..Len(matching_candidates) :
          matching_candidates[i].skills = <<Python>>

\* C8: with required skills, every result has at least one matched skill;
\* without, no record is left out for its skills: the first record of every
\* key that has the experience is a result.
C8_NoResultWithoutMatchedSkill ==
    /\ required_skills # <<>> =>
          \A i \in 1..Len(matching_candidates) :
              Len(matching_candidates[i].matched_skills) >= 1
    /\ (SearchDone /\ required_skills = <<>>) =>
          \A p \in 1..Len(resumes_data) :
              (/\ \A h \in 1..(p - 1) :
                     CandidateKey(resumes_data[h].info) # CandidateKey(resumes_data[p].info)
               /\ ~(~min_experience.nan
                    /\ resumes_data[p].info.total_experience_years < min_experience.v))
              => \E i \in 1..Len(matching_candidates) :
                    matching_candidates[i].resume_id = resumes_data[p].id

\* C8 witness: skills are required, two records with different keys have
\* the experience, and only the one with a matching skill is returned.
C8_Witness ==
    /\ SearchDone
    /\ required_skills # <<>>
    /\ ~min_experience.nan /\ min_experience.v = 0
    /\ Len(resumes_data) = 2
    /\ CandidateKey(resumes_data[1].info) # CandidateKey(resumes_data[2].info)
    /\ \A p \in 1..2 : resumes_data[p].info.total_experience_years >= 0
    /\ Len(matching_candidates) = 1

\* what the claims about an upload say of a document, by its attributes
C9_Allowed(doc) == doc.filename # <<>> /\ allowed_file(doc.filename)

C9_HasText(doc) ==
    \E k \in 1..Len(doc.pages) :
        \/ Strip(doc.pages[k].text) # <<>>
        \/ Strip(doc.pages[k].ocr) # <<>>

C9_Succeeds(doc) ==
    /\ C9_Allowed(doc)
    /\ doc.save_ok
    /\ doc.read_ok
    /\ C9_HasText(doc)
    /\ doc.extract_ok

C9_Count(fs, n, P(_)) == Cardinality({ k \in 1..n : P(fs[k]) })

C9_Fails(doc) == C9_Allowed(doc) /\ ~C9_Succeeds(doc)

\* C9: a failing document never aborts the batch: the loop visits every
\* file, each allowed document before the loop position is counted once,
\* as parsed if it succeeds and as failed otherwise, and when the request
\* ends parsed_count + failed_count is the number of allowed documents.
C9_BatchSurvivesFailures ==
    /\ upl_pc \in {"loop", "done"} =>
          /\ parsed_count = C9_Count(files, file_idx - 1, C9_Succeeds)
          /\ failed_count = C9_Count(files, file_idx - 1, C9_Fails)
    /\ upl_pc = "done" =>
          /\ file_idx = Len(files) + 1
          /\ parsed_count + failed_count = C9_Count(files, Len(files), C9_Allowed)

\* C9 witness: a batch of two allowed documents has ended, the first one
\* failed and the second one was parsed and stored.
C9_Witness ==
    /\ upl_pc = "done"
    /\ Len(files) = 2
    /\ C9_Fails(files[1])
    /\ C9_Succeeds(files[2])
    /\ failed_count = 1
    /\ parsed_count = 1
    /\ resumes_data # <<>>
    /\ resumes_data[Len(resumes_data)].info = ResumeInfo(files[2].content)

\* the upload loop is at an allowed, saved and readable document none of
\* whose pages has text, neither in its text layer nor by OCR
C10_AtDocumentWithoutText ==
    /\ upl_pc = "loop"
    /\ file_idx <= Len(files)
    /\ C9_Allowed(files[file_idx])
    /\ files[file_idx].save_ok
    /\ files[file_idx].read_ok
    /\ ~C9_HasText(files[file_idx])

\* C10: a document whose text extraction yields no text adds no record,
\* leaves the store as it is and raises the failure count by exactly 1.
C10_NoTextCountsOneFailure ==
    [][C10_AtDocumentWithoutText =>
          /\ resumes_data' = resumes_data
          /\ failed_count' = failed_count + 1
          /\ parsed_count' = parsed_count]_vars

\* C10 witness: the loop has just passed a document without text, with a
\* record already in the store.
C10_Witness ==
    /\ upl_pc = "loop"
    /\ file_idx > 1
    /\ C9_Allowed(files[file_idx - 1])
    /\ files[file_idx - 1].save_ok
    /\ files[file_idx - 1].read_ok
    /\ files[file_idx - 1].pages # <<>>
    /\ ~C9_HasText(files[file_idx - 1])
    /\ failed_count = 1
    /\ parsed_count = 0
    /\ resumes_data # <<>>

\* C11: every experience entry of a stored record has duration_years >= 0,
\* also when its end date is earlier than its start date, and so the
\* record's total_experience_years is >= 0.  relativedelta(end, start) is
\* negative for a range that runs backwards, and the sum inherits it.
C11_DurationsNotNegative ==
    \A p \in 1..Len(resumes_data) :
        /\ \A i \in 1..Len(resumes_data[p].info.experience) :
              resumes_data[p].info.experience[i].duration_years >= 0
        /\ resumes_data[p].info.total_experience_years >= 0

\* the upload loop is at a document that will be parsed and stored
C13_AtParsedDocument ==
    /\ upl_pc = "loop"
    /\ file_idx <= Len(files)
    /\ C9_Succeeds(files[file_idx])

C13_NotBlank(entry) == Strip(entry.text) # <<>>

\* the texts handed to the date parser for a date text: the two sides of a
\* range (the end side only when it is not empty and not a word for today),
\* or the whole text
C13_ParsedTexts(date_text) ==
    IF IsSubstring(<<"-">>, date_text)
    THEN LET date_parts == Split(date_text, "-")
             end_text == IF Len(date_parts) > 1 THEN Strip(date_parts[2]) ELSE <<>>
         IN  {Strip(date_parts[1])}
                \cup (IF end_text # <<>> /\ ~IsCurrent(end_text) THEN {end_text} ELSE {})
    ELSE {date_text}

C13_ParseRaises(date_text) ==
    \E t \in C13_ParsedTexts(date_text) : ~date_parser_parse(t).some

\* C13: when parsing the date text of an education or experience entry
\* raises, the entry is still in the result with both dates absent and (for
\* experience) duration 0, and the other entries and the document are
\* processed as usual; also when the start of a range parses and its end
\* does not.  The assignment of start_date precedes the parse of the end, so
\* in that case the entry keeps its start date.
C13_DateParseFailureContained ==
    [][C13_AtParsedDocument =>
          LET content == files[file_idx].content
              info == resumes_data'[Len(resumes_data')].info
              entries == SelectSeq(content.job_entries, C13_NotBlank)
          IN  /\ Len(resumes_data') = Len(resumes_data) + 1
              /\ Len(info.experience) = Len(entries)
              /\ \A i \in 1..Len(entries) :
                    /\ info.experience[i].description = entries[i]
                    /\ (/\ entries[i].date_matches # <<>>
                        /\ C13_ParseRaises(entries[i].date_matches[1]))
                       => /\ ~info.experience[i].start_date.some
                          /\ ~info.experience[i].end_date.some
                          /\ info.experience[i].duration_years = 0
              /\ Len(info.education) = Len(content.potential_degrees)
              /\ \A i \in 1..Len(content.potential_degrees) :
                    (i <= Len(content.dates) /\ C13_ParseRaises(content.dates[i]))
                       => /\ ~info.education[i].start_date.some
                          /\ ~info.education[i].end_date.some]_vars

\* a search request is served in this step
C12_SearchStep == request = "none" /\ request' = "search" /\ resumes_data # <<>>

\* C12: match_candidates has no effect on its inputs: the search leaves the
\* store and every stored record as they were, the list required_skills
\* still holds what was read from the form, every result shows the skills
\* list of its record, and a second call on the same store, list and minimum
\* returns the same results.
C12_MatchCandidatesIsPure ==
    [][C12_SearchStep =>
          /\ resumes_data' = resumes_data
          /\ required_skills' = ParseRequiredSkills(form'.required_skills)
          /\ min_experience' = ParseMinExperience(form'.min_experience)
          /\ \A i \in 1..Len(matching_candidates') :
                \E p \in 1..Len(resumes_data') :
                    /\ resumes_data'[p].id = matching_candidates'[i].resume_id
                    /\ resumes_data'[p].info.skills = matching_candidates'[i].skills
          /\ matching_candidates'
                = match_candidates(resumes_data', required_skills', min_experience')]_vars

\* C12 witness: a search for two skills returned a result for which
\* match_skills took one skill off its list of missing skills.
C12_Witness ==
    /\ SearchDone
    /\ Len(required_skills) = 2
    /\ required_skills = ParseRequiredSkills(form.required_skills)
    /\ \E i \in 1..Len(matching_candidates) :
          /\ Len(matching_candidates[i].matched_skills) = 1
          /\ Len(matching_candidates[i].missing_skills) = 1

\* the infos of the documents among the first n of fs that are parsed, in
\* the order of the batch
RECURSIVE C14_ParsedInfos(_, _)
C14_ParsedInfos(fs, n) ==
    IF n = 0
    THEN <<>>
    ELSE IF C9_Succeeds(fs[n])
    THEN Append(C14_ParsedInfos(fs, n - 1), ResumeInfo(fs[n].content))
    ELSE C14_ParsedInfos(fs, n - 1)

\* C14: the store holds exactly the records of the documents parsed since
\* the latest clear, each under an id of its own.  A /clear request and the
\* start of an upload with clear_previous empty the store; a parsed document
\* adds one record under a fresh id behind the records already there; every
\* other step, a search included, leaves the store as it is; and a batch
\* that cleared the store has exactly its parsed documents in it.
C14_StoreHoldsRecordsSinceClear ==
    [][/\ \A i, j \in 1..Len(resumes_data') :
             i # j => resumes_data'[i].id # resumes_data'[j].id
       /\ IF request = "none" /\ request' = "clear"
          THEN resumes_data' = <<>>
          ELSE IF request = "none" /\ request' = "upload" /\ upl_pc' = "loop"
          THEN resumes_data' = IF clear_previous' THEN <<>> ELSE resumes_data
          ELSE IF upl_pc = "loop" /\ file_idx <= Len(files)
                  /\ C9_Succeeds(files[file_idx])
          THEN \E rec \in Range(resumes_data') :
                  /\ resumes_data' = Append(resumes_data, rec)
                  /\ rec.id >= next_id
                  /\ rec.filename = files[file_idx].filename
                  /\ rec.info = ResumeInfo(files[file_idx].content)
          ELSE resumes_data' = resumes_data
       /\ (upl_pc' \in {"loop", "done"} /\ clear_previous')
          => [p \in 1..Len(resumes_data') |-> resumes_data'[p].info]
                = C14_ParsedInfos(files', file_idx' - 1)]_vars

\* C14 witness: an upload that did not clear has ended with one document
\* parsed, and the store holds its record behind a record of an earlier
\* batch.
C14_Witness ==
    /\ upl_pc = "done"
    /\ ~clear_previous
    /\ parsed_count = 1
    /\ Len(resumes_data) = 2
    /\ resumes_data[2].info \in Range(C14_ParsedInfos(files, Len(files)))

\* a document the upload has counted as parsed has no record in the store
C15_ParsedDocumentLost ==
    \E k \in 1..(file_idx - 1) :
        /\ C9_Succeeds(files[k])
        /\ \A p \in 1..Len(resumes_data) :
              \/ resumes_data[p].filename # files[k].filename
              \/ resumes_data[p].info # ResumeInfo(files[k].content)

\* C15: the store has no concurrency control.  An upload served alone keeps
\* every document it has counted as parsed in the store; a parsed document
\* is without a record only when a second request, a /clear or an upload
\* with clear_previous, was served during the upload.
C15_LostOnlyByConcurrentClear ==
    (upl_pc \in {"loop", "done"} /\ C15_ParsedDocumentLost)
       => other.request \in {"clear", "upload"}

\* C15 witness: the upload and the second request have both finished, the
\* upload counts its two documents as parsed, and the store holds the record
\* of the second one only: the store was cleared between the two.
C15_Witness ==
    /\ upl_pc = "done"
    /\ other.pc = "done"
    /\ Len(files) = 2
    /\ parsed_count = 2
    /\ C15_ParsedDocumentLost
    /\ Len(resumes_data) = 1
    /\ resumes_data[1].info = ResumeInfo(files[2].content)
    /\ resumes_data[1].info # ResumeInfo(files[1].content)

\* the orders a list can be given in
C16_Orders(lst) ==
    { [i \in 1..Len(lst) |-> lst[f[i]]] : f \in Permutations(1..Len(lst)) }

\* C16: for a candidate and a set of required skills, the set of matched
\* skills, the set of missing skills and the match_score are the same in
\* whatever order the required skills and the candidate's skills are
\* listed.  A candidate skill is matched to the first required skill it
\* satisfies the rule against, so the order of the required skills decides
\* which one that is.
C16_OrderIndependent ==
    \A i \in 1..Len(matching_candidates) :
        LET r == matching_candidates[i]
        IN  \A rs \in C16_Orders(required_skills), cs \in C16_Orders(r.skills) :
                LET ms == match_skills(cs, rs)
                IN  /\ Range(ms.matched) = Range(r.matched_skills)
                    /\ Range(ms.missing) = Range(r.missing_skills)
                    /\ RatEq(MatchScore(SkillMatchScore(ms.matched, rs),
                                        ExperienceScore(r.total_experience,
                                                        min_experience)),
                             r.match_score)

====
